---------------------------- MODULE Spec2Model ----------------------------
(***************************************************************************)
(* Model of the concurrent crawl of sitemap_generator.py: the main thread  *)
(* of SitemapGenerator.generate_sitemap, the pool workers that run         *)
(* SitemapGenerator.crawl_page, the shared lock, visited_urls and urlset.  *)
(* The web (pages, their headers and links, robots.txt) is the environment *)
(* and is given as a small fixed site.                                     *)
(***************************************************************************)
EXTENDS Integers, Sequences, FiniteSets, TLC

(***************************************************************************)
(* Bounds of the model.                                                    *)
(***************************************************************************)
\* MAX_DEPTH (config.py:17) ranges over -1 .. MaxDepthBound
MaxDepthBound == 2
\* MAX_WORKERS (config.py:19) ranges over 1 .. MaxWorkersBound
MaxWorkersBound == 2

(***************************************************************************)
(* URLs.  A URL string is modelled by the five components urlparse splits  *)
(* it into (params are always empty here); two URL strings are equal iff   *)
(* their components are.  An href uses the same shape, with scheme = ""    *)
(* and netloc = "" for a relative reference.                               *)
(***************************************************************************)
Url(s, n, p, q, f) ==
    [scheme |-> s, netloc |-> n, path |-> p, query |-> q, fragment |-> f]

\* SitemapGenerator._normalize_url: drop query and fragment.
_normalize_url(url) ==
    [url EXCEPT !.query = "", !.fragment = ""]

\* urllib.parse.urljoin(base_url, href) on the shapes of href that occur.
urljoin(base, href) ==
    IF href.scheme # "" THEN href
    ELSE IF href.netloc # "" THEN [href EXCEPT !.scheme = base.scheme]
    ELSE IF href.path = ""
         THEN Url(base.scheme, base.netloc, base.path,
                  IF href.query # "" THEN href.query ELSE base.query,
                  href.fragment)
         ELSE Url(base.scheme, base.netloc, href.path, href.query, href.fragment)

\* href.startswith("#")
StartsWithHash(href) ==
    /\ href.scheme = "" /\ href.netloc = "" /\ href.path = "" /\ href.query = ""
    /\ href.fragment # ""

\* href.startswith("mailto:")
StartsWithMailto(href) == href.scheme = "mailto"

(***************************************************************************)
(* URL strings, character by character.  urlparse and urlunparse are not   *)
(* inverse to each other on every string, so _normalize_url is also given  *)
(* on strings: a string is a sequence over UrlChars, "h" is the one letter *)
(* (the scheme "h" stands for http, a scheme of uses_netloc).  Strings     *)
(* over these characters have no params and need no stripping.             *)
(***************************************************************************)
\* longest URL string drawn as an input
MaxUrlLen == 4
UrlChars == {"h", ":", "/", "?", "#"}
UrlStrings == UNION { [1 .. n -> UrlChars] : n \in 0 .. MaxUrlLen }

\* str.find(c, from): the first index >= from holding c, 0 when there is none
Find(str, c, from) ==
    LET hits == { i \in from .. Len(str) : str[i] = c }
    IN  IF hits = {} THEN 0 ELSE CHOOSE i \in hits : \A j \in hits : i <= j

\* urlsplit, the scheme: the text before the first ":" when it is made of
\* scheme characters only (here: letters)
SplitScheme(url) ==
    LET i == Find(url, ":", 1)
    IN  IF i > 1 /\ \A k \in 1 .. (i - 1) : url[k] = "h"
          THEN << SubSeq(url, 1, i - 1), SubSeq(url, i + 1, Len(url)) >>
          ELSE << << >>, url >>

\* url[:2] == "//"
StartsWithSlashes(url) == Len(url) >= 2 /\ url[1] = "/" /\ url[2] = "/"

\* urlsplit, the netloc: after a leading "//", up to the next "/", "?" or "#"
SplitNetloc(url) ==
    IF StartsWithSlashes(url)
      THEN LET ends == { i \in 3 .. Len(url) : url[i] \in {"/", "?", "#"} }
               delim == IF ends = {} THEN Len(url) + 1
                        ELSE CHOOSE i \in ends : \A j \in ends : i <= j
           IN  << SubSeq(url, 3, delim - 1), SubSeq(url, delim, Len(url)) >>
      ELSE << << >>, url >>

\* url.split(c, 1) when c occurs in url
SplitAt(url, c) ==
    LET i == Find(url, c, 1)
    IN  IF i = 0 THEN << url, << >> >>
        ELSE << SubSeq(url, 1, i - 1), SubSeq(url, i + 1, Len(url)) >>

\* urllib.parse.urlparse(url) as called on line 86
urlparse(url) ==
    LET a == SplitScheme(url)
        b == SplitNetloc(a[2])
        c == SplitAt(b[2], "#")
        d == SplitAt(c[1], "?")
    IN  [scheme |-> a[1], netloc |-> b[1], path |-> d[1], query |-> d[2],
         fragment |-> c[2]]

uses_netloc == { << "h" >> }

\* urllib.parse.urlunparse(components) as called on lines 87-96
urlunparse(p) ==
    LET withNetloc ==
            IF p.netloc # << >>
                 \/ (p.scheme \in uses_netloc /\ ~StartsWithSlashes(p.path))
              THEN << "/", "/" >> \o p.netloc \o
                   (IF p.path # << >> /\ p.path[1] # "/"
                      THEN << "/" >> \o p.path ELSE p.path)
              ELSE p.path
        withScheme == IF p.scheme # << >> THEN p.scheme \o << ":" >> \o withNetloc
                      ELSE withNetloc
        withQuery == IF p.query # << >> THEN withScheme \o << "?" >> \o p.query
                     ELSE withScheme
    IN  IF p.fragment # << >> THEN withQuery \o << "#" >> \o p.fragment
        ELSE withQuery

\* SitemapGenerator._normalize_url on a URL string
NormalizeString(url) ==
    urlunparse([urlparse(url) EXCEPT !.query = << >>, !.fragment = << >>])

(***************************************************************************)
(* Configuration (config.py).  DOMAIN, USER_AGENT and the threshold are    *)
(* fixed; the other options are chosen in Init.                            *)
(***************************************************************************)
\* DOMAIN of config.py (DOMAIN is a reserved word of TLA+)
CONFIG_DOMAIN == "x.test"
\* datetime(2022, 9, 20): times are small integers around it
TIME_FILTER_THRESHOLD == 1

StartUrls ==
    { Url("https", "x.test", "/a", "", ""),
      Url("https", "x.test", "/a", "q=1", ""),
      Url("https", "other.test", "/c", "", ""),
      Url("https", "x.test", "/s", "", ""),
      Url("", "", "not-a-url", "", "") }


(***************************************************************************)
(* The site (environment): what urlopen answers for a URL and which hrefs  *)
(* LinkParser finds in the body.  The server ignores query and fragment.   *)
(***************************************************************************)
Rel(p, q, f) == Url("", "", p, q, f)

\* hrefs of <a> tags of the page at a host and path, in document order
PageLinks(netloc, path) ==
    IF netloc = "x.test" /\ path = "/a"
      THEN << Rel("/b", "", "frag"), Url("https", "other.test", "/c", "", ""),
              Rel("/old", "", ""), Rel("", "", "top"),
              Url("mailto", "", "me@x.test", "", "") >>
    ELSE IF netloc = "x.test" /\ path = "/b"
      THEN << Rel("/f", "", ""), Rel("/a", "p=2", ""), Rel("/priv", "", "") >>
    ELSE IF netloc = "x.test" /\ path = "/old"
      THEN << Url("ftp", "x.test", "/g", "", "") >>
    ELSE IF netloc = "other.test" /\ path = "/c"
      THEN << Rel("/d", "", ""), Url("https", "x.test", "/priv", "", "") >>
    ELSE IF netloc = "x.test" /\ path = "/s"
      THEN << Rel("/w", "", "1"), Rel("/w", "", "2"), Rel("/w", "", "3"),
              Rel("/w", "", "4"), Rel("/u", "", "") >>
    ELSE IF netloc = "x.test" /\ path = "/w"
      THEN << Rel("/u", "", "") >>
    ELSE IF netloc = "x.test" /\ path = "/u"
      THEN << Rel("/v", "", "") >>
    ELSE << >>

\* the dates the server may send as Last-Modified for a page
PageTimes(netloc, path) ==
    IF path \in {"/old", "/s"} THEN {TIME_FILTER_THRESHOLD}
    ELSE IF path = "/priv" THEN {TIME_FILTER_THRESHOLD - 1}
    ELSE {TIME_FILTER_THRESHOLD + 1}

\* the Last-Modified header of a 200 response: a date that parses, no
\* header, or a value parsedate_to_datetime rejects
DateHeader(t) == [kind |-> "date", time |-> t]
NoHeader == [kind |-> "absent", time |-> 0]
BadHeader == [kind |-> "garbage", time |-> 0]
PageHeaders(netloc, path) ==
    IF path = "/a" THEN {BadHeader}
    ELSE IF path = "/b" THEN {NoHeader}
    ELSE { DateHeader(t) : t \in PageTimes(netloc, path) }

\* datetime.now(timezone.utc): the clock is past the threshold of config.py
Now == TIME_FILTER_THRESHOLD + 2

\* a default timestamp at the start of time
LastmodEpoch(header) == IF header.kind = "date" THEN header.time ELSE 0

\* lines 145-152: the parsed header, or the current time when the header is
\* missing or parsedate_to_datetime raises ValueError or TypeError
LastmodOf(header) == IF header.kind = "date" THEN header.time ELSE Now

Ok(header, hrefs) ==
    [kind |-> "ok", lastmod |-> LastmodOf(header), content |-> hrefs,
     header |-> header.kind]
Failure == [kind |-> "none", lastmod |-> 0, content |-> << >>, header |-> "none"]
Raised == [kind |-> "raise", lastmod |-> 0, content |-> << >>, header |-> "none"]

\* SitemapGenerator.fetch_page(url): the results it can end with.
\*   "raise": an exception other than URLError/HTTPError/UnicodeDecodeError
\*            leaves fetch_page (ValueError of Request() for a URL without a
\*            scheme, a read timeout);
\*   "none":  non-200 status or a caught URLError/HTTPError;
\*   "ok":    (content, lastmod).
fetch_page(url) ==
    IF url.scheme = "" THEN {Raised}
    ELSE IF url.scheme \notin {"http", "https"} THEN {Failure}
    ELSE IF url.path = "/f" THEN {Raised}
    ELSE { Ok(h, PageLinks(url.netloc, url.path)) :
              h \in PageHeaders(url.netloc, url.path) }

\* The robots policies the site may serve, and RobotFileParser.can_fetch on
\* them: "allow", "deny", or "raise" when the evaluation throws.
Policies == {"P1", "P2"}
RobotsRule(policy, url) ==
    IF url.path = "/s" THEN "deny"
    ELSE IF policy = "P1"
      THEN IF url.path = "/priv" THEN "deny"
           ELSE IF url.path = "/old" THEN "raise" ELSE "allow"
    ELSE IF url.path = "/a" THEN "deny" ELSE "allow"

(***************************************************************************)
(* State.                                                                  *)
(***************************************************************************)
VARIABLES
    MAX_DEPTH, MAX_WORKERS, USE_TIME_FILTER, RESPECT_ROBOTS_TXT, START_URL,
    rp,               \* self.rp: "None" or a loaded policy
    visited_urls,     \* self.visited_urls
    lock,             \* self.lock: 0 when free, else the index of the holder
    urlset,           \* self.urlset: the <url> elements, in document order
    urls_to_process,  \* the frontier of generate_sitemap
    futures,          \* future_to_url of the current batch, in submit order
    pc,               \* where generate_sitemap is: "setup", "crawl", "done"
    result,           \* return of generate_sitemap: "running", "True", "False"
    file,             \* the <url> elements written to OUTPUT_FILENAME
    writes,           \* history: number of calls of tree.write
    setup_failed,     \* history: os.makedirs raised
    fetch_log,        \* history: the calls of fetch_page and their results
    dispatched,       \* history: number of crawl_page calls submitted so far
    url_in,           \* a URL string handed to _normalize_url
    url_norm,         \* the results of _normalize_url on url_in, then on its result
    url_alt           \* a second URL string and its result, or << >>

config == << MAX_DEPTH, MAX_WORKERS, USE_TIME_FILTER, RESPECT_ROBOTS_TXT,
             START_URL, rp >>
vars == << MAX_DEPTH, MAX_WORKERS, USE_TIME_FILTER, RESPECT_ROBOTS_TXT,
           START_URL, rp, visited_urls, lock, urlset, urls_to_process,
           futures, pc, result, file, writes, setup_failed, fetch_log,
           dispatched, url_in, url_norm, url_alt >>
strings == << url_in, url_norm, url_alt >>

\* SitemapGenerator._init_robots_parser: the values it can return
_init_robots_parser(respect) ==
    IF ~respect THEN {"None"} ELSE {"None"} \cup Policies

\* State after config.py is loaded and SitemapGenerator() is constructed.
Init ==
    /\ MAX_DEPTH \in -1 .. MaxDepthBound
    /\ MAX_WORKERS \in 1 .. MaxWorkersBound
    /\ USE_TIME_FILTER \in BOOLEAN
    /\ RESPECT_ROBOTS_TXT \in BOOLEAN
    /\ START_URL \in StartUrls
    /\ rp \in _init_robots_parser(RESPECT_ROBOTS_TXT)
    /\ visited_urls = {}
    /\ lock = 0
    /\ urlset = << >>
    /\ urls_to_process = << >>
    /\ futures = << >>
    /\ pc = "setup"
    /\ result = "running"
    /\ file = << >>
    /\ writes = 0
    /\ setup_failed = FALSE
    /\ fetch_log = {}
    /\ dispatched = 0
    /\ url_in = << >>
    /\ url_norm = << >>
    /\ url_alt = << >>

(***************************************************************************)
(* Pure parts of the workers.                                              *)
(***************************************************************************)
\* can_fetch without the robots check
can_fetch_unchecked(url) == TRUE

\* can_fetch that denies when the rule evaluation raises
can_fetch_fail_closed(url) ==
    IF rp = "None" THEN TRUE ELSE RobotsRule(rp, url) = "allow"

\* SitemapGenerator.can_fetch
can_fetch(url) ==
    IF rp = "None" THEN TRUE
    ELSE IF RobotsRule(rp, url) = "raise" THEN TRUE
    ELSE RobotsRule(rp, url) = "allow"

\* the guard of line 182: the call returns [] without touching shared state
RejectedAtEntry(url, depth) == depth > MAX_DEPTH \/ ~can_fetch(url)

\* the test of line 187, evaluated under the lock
AlreadyVisited(url, visited) == url \in visited

\* the time filter with < in place of <=
TimeFilteredStrictly(lastmod) == USE_TIME_FILTER /\ lastmod < TIME_FILTER_THRESHOLD

\* a time filter that rejects nothing
TimeFilterOff(lastmod) == FALSE

\* the test of line 199
TimeFiltered(lastmod) == USE_TIME_FILTER /\ lastmod <= TIME_FILTER_THRESHOLD

\* the test of line 172
SameDomain(url) == url.netloc = CONFIG_DOMAIN

\* SitemapGenerator.extract_links(content, base_url)
RECURSIVE extract_links(_, _)
extract_links(content, base_url) ==
    IF content = << >> THEN << >>
    ELSE LET href == Head(content)
             normalized_url == _normalize_url(urljoin(base_url, href))
             rest == extract_links(Tail(content), base_url)
         IN IF /\ ~StartsWithHash(href) /\ ~StartsWithMailto(href)
               /\ SameDomain(normalized_url)
            THEN << normalized_url >> \o rest
            ELSE rest

\* the depth test of line 235 applied to the parent's depth
RECURSIVE NewItemsParentDepth(_, _)
NewItemsParentDepth(links, depth) ==
    IF links = << >> THEN << >>
    ELSE (IF depth <= MAX_DEPTH
          THEN << [url |-> Head(links), depth |-> depth + 1] >> ELSE << >>)
         \o NewItemsParentDepth(Tail(links), depth)

\* lines 234-236: the frontier items a finished call contributes
RECURSIVE NewItems(_, _)
NewItems(links, depth) ==
    IF links = << >> THEN << >>
    ELSE (IF depth + 1 <= MAX_DEPTH
          THEN << [url |-> Head(links), depth |-> depth + 1] >> ELSE << >>)
         \o NewItems(Tail(links), depth)

(***************************************************************************)
(* The futures of the current batch.  A future is the crawl_page call it   *)
(* runs: at = "queued" (submitted), "wait_visited" (line 186, waiting for  *)
(* the lock), "in_visited" (line 187, lock held), "add_visited" (line 189, *)
(* lock held), "fetch" (line 192),                                         *)
(* "wait_record" (line 125), "in_record" (lines 126-130, lock held),       *)
(* "extract" (line 207), "done" (returned or raised), "collected" (its     *)
(* result was taken by the as_completed loop).                             *)
(* end is how the frontier item ended (history): "denied" (line 183),      *)
(* "duplicate" (line 188), "failed" (line 194 or an exception),            *)
(* "filtered" (line 200), "accepted" (line 207).                           *)
(***************************************************************************)
Future(id, item) ==
    [id |-> id, url |-> item.url, depth |-> item.depth, at |-> "queued",
     lastmod |-> 0, content |-> << >>, links |-> << >>, exc |-> FALSE,
     end |-> "none"]

Indices == DOMAIN futures
Executing(i) ==
    futures[i].at \in {"wait_visited", "in_visited", "add_visited", "fetch",
                       "wait_record", "in_record", "extract"}
\* an executor left without waiting for its futures
NotAwaited == TRUE

\* every call of the batch has finished, collected by the loop or not yet
AllReturned == \A i \in Indices : futures[i].at \in {"done", "collected"}

\* the with block of line 223 is left, and the loop of line 229 has ended
AllCollected == \A i \in Indices : futures[i].at = "collected"

Returned(f, links, state) ==
    [f EXCEPT !.at = "done", !.links = links, !.end = state]

\* a batch that takes the whole frontier
WholeFrontier(seq, n) == seq

\* urls_to_process[:n] and urls_to_process[n:]
FirstN(seq, n) == SubSeq(seq, 1, IF Len(seq) < n THEN Len(seq) ELSE n)
DropN(seq, n) == SubSeq(seq, n + 1, Len(seq))

\* future.result() called outside the inner try
HandledOnlyResults(f) == ~f.exc

\* lines 231-238: future.result() is called inside try/except Exception, so
\* an exception of one call is logged and the loop goes on
HandledPerItem(f) == TRUE

(***************************************************************************)
(* generate_sitemap, main thread.                                          *)
(***************************************************************************)
\* lines 211-217: os.makedirs, then the frontier is seeded with the start URL
Setup ==
    /\ pc = "setup"
    /\ pc' = "crawl"
    /\ urls_to_process' = << [url |-> START_URL, depth |-> 0] >>
    /\ UNCHANGED << config, strings, visited_urls, lock, urlset, futures, result, file,
                    writes, setup_failed, fetch_log, dispatched >>

\* lines 213-215 raise, lines 246-248 return False
SetupFails ==
    /\ pc = "setup"
    /\ pc' = "done"
    /\ result' = "False"
    /\ setup_failed' = TRUE
    /\ UNCHANGED << config, strings, visited_urls, lock, urlset, urls_to_process,
                    futures, file, writes, fetch_log, dispatched >>

\* lines 219-227: the previous executor has shut down (every future is
\* finished and its result taken); the next batch is cut and submitted
TakeBatch ==
    /\ pc = "crawl"
    /\ AllCollected
    /\ urls_to_process # << >>
    /\ LET current_batch == FirstN(urls_to_process, MAX_WORKERS * 2)
       IN /\ futures' = [i \in 1 .. Len(current_batch) |->
                            Future(dispatched + i, current_batch[i])]
          /\ dispatched' = dispatched + Len(current_batch)
    /\ urls_to_process' = DropN(urls_to_process, MAX_WORKERS * 2)
    /\ UNCHANGED << config, strings, visited_urls, lock, urlset, pc, result, file,
                    writes, setup_failed, fetch_log >>

\* lines 229-238: as_completed yields a finished future; its links are
\* appended to the frontier for the next depth level
Collect(i) ==
    /\ pc = "crawl"
    /\ futures[i].at = "done"
    /\ IF HandledPerItem(futures[i])
       THEN /\ futures' = [futures EXCEPT ![i].at = "collected"]
            /\ urls_to_process' =
                 urls_to_process \o
                 (IF futures[i].exc THEN << >>
                  ELSE NewItems(futures[i].links, futures[i].depth))
            /\ UNCHANGED << pc, result >>
       ELSE \* the exception reaches the outer handler, lines 246-248
            /\ pc' = "done"
            /\ result' = "False"
            /\ UNCHANGED << futures, urls_to_process >>
    /\ UNCHANGED << config, strings, visited_urls, lock, urlset, file, writes,
                    setup_failed, fetch_log, dispatched >>

\* lines 240-244: the loop has ended; tree.write either succeeds (return
\* True) or raises (lines 246-248, return False)
WriteSitemap ==
    /\ pc = "crawl"
    /\ AllCollected
    /\ urls_to_process = << >>
    /\ writes' = writes + 1
    /\ pc' = "done"
    /\ \/ /\ file' = urlset
          /\ result' = "True"
       \/ /\ file' = file
          /\ result' = "False"
    /\ UNCHANGED << config, strings, visited_urls, lock, urlset, urls_to_process,
                    futures, setup_failed, fetch_log, dispatched >>

(***************************************************************************)
(* crawl_page, run by a pool thread for future i.                          *)
(***************************************************************************)
WorkerUnchanged ==
    UNCHANGED << config, strings, urls_to_process, pc, result, file, writes,
                 setup_failed, dispatched >>

\* A pool thread takes the oldest queued call (at most MAX_WORKERS threads)
\* and evaluates line 182.
CrawlStart(i) ==
    /\ pc = "crawl"
    /\ futures[i].at = "queued"
    /\ \A j \in Indices : j < i => futures[j].at # "queued"
    /\ Cardinality({j \in Indices : Executing(j)}) < MAX_WORKERS
    /\ futures' =
         [futures EXCEPT ![i] =
            IF RejectedAtEntry(@.url, @.depth)
            THEN Returned(@, << >>, "denied")
            ELSE [@ EXCEPT !.at = "wait_visited"]]
    /\ UNCHANGED << visited_urls, lock, urlset, fetch_log >>
    /\ WorkerUnchanged

\* a lock whose acquire never waits
LockIgnored(l) == TRUE

\* threading.Lock: acquire succeeds only while nobody holds the lock
LockFree(l) == l = 0

\* a with block that is left without releasing the lock
KeptLocked(l) == l

\* the with self.lock block is left, by its end or by a return: the lock is
\* released
Released(l) == 0

\* line 186: with self.lock
AcquireVisited(i) ==
    /\ pc = "crawl"
    /\ futures[i].at = "wait_visited"
    /\ LockFree(lock)
    /\ lock' = i
    /\ futures' = [futures EXCEPT ![i].at = "in_visited"]
    /\ UNCHANGED << visited_urls, urlset, fetch_log >>
    /\ WorkerUnchanged

\* lines 187-188: the membership test; return [] leaves the with block and
\* releases the lock
TestVisited(i) ==
    /\ pc = "crawl"
    /\ futures[i].at = "in_visited"
    /\ IF AlreadyVisited(futures[i].url, visited_urls)
       THEN /\ futures' = [futures EXCEPT ![i] = Returned(@, << >>, "duplicate")]
            /\ lock' = Released(lock)
       ELSE /\ futures' = [futures EXCEPT ![i].at = "add_visited"]
            /\ UNCHANGED lock
    /\ UNCHANGED << visited_urls, urlset, fetch_log >>
    /\ WorkerUnchanged

\* line 189, and the release of the lock at the end of the with block
AddVisited(i) ==
    /\ pc = "crawl"
    /\ futures[i].at = "add_visited"
    /\ visited_urls' = visited_urls \cup {futures[i].url}
    /\ lock' = Released(lock)
    /\ futures' = [futures EXCEPT ![i].at = "fetch"]
    /\ UNCHANGED << urlset, fetch_log >>
    /\ WorkerUnchanged

\* lines 192-200: fetch_page and the time filter
FetchPage(i) ==
    /\ pc = "crawl"
    /\ futures[i].at = "fetch"
    /\ \E r \in fetch_page(futures[i].url) :
         /\ fetch_log' = fetch_log \cup
              {[url |-> futures[i].url, depth |-> futures[i].depth,
                id |-> futures[i].id, kind |-> r.kind, lastmod |-> r.lastmod,
                header |-> r.header]}
         /\ futures' =
              [futures EXCEPT ![i] =
                 IF r.kind = "raise"
                   THEN [@ EXCEPT !.at = "done", !.exc = TRUE, !.end = "failed"]
                 ELSE IF r.kind = "none"
                   THEN Returned(@, << >>, "failed")
                 ELSE IF TimeFiltered(r.lastmod)
                   THEN Returned(@, << >>, "filtered")
                 ELSE [@ EXCEPT !.at = "wait_record", !.lastmod = r.lastmod,
                                !.content = r.content]]
    /\ UNCHANGED << visited_urls, lock, urlset >>
    /\ WorkerUnchanged

\* process_page, line 125: with self.lock
AcquireRecord(i) ==
    /\ pc = "crawl"
    /\ futures[i].at = "wait_record"
    /\ LockFree(lock)
    /\ lock' = i
    /\ futures' = [futures EXCEPT ![i].at = "in_record"]
    /\ UNCHANGED << visited_urls, urlset, fetch_log >>
    /\ WorkerUnchanged

\* process_page, lines 126-130, and the release of the lock.  depth is a
\* history field: the depth the page was dispatched with.
ProcessPage(i) ==
    /\ pc = "crawl"
    /\ futures[i].at = "in_record"
    /\ urlset' = Append(urlset, [loc |-> futures[i].url,
                                 lastmod |-> futures[i].lastmod,
                                 depth |-> futures[i].depth])
    /\ lock' = Released(lock)
    /\ futures' = [futures EXCEPT ![i].at = "extract"]
    /\ UNCHANGED << visited_urls, fetch_log >>
    /\ WorkerUnchanged

\* line 207: return self.extract_links(content, url)
ExtractLinks(i) ==
    /\ pc = "crawl"
    /\ futures[i].at = "extract"
    /\ futures' = [futures EXCEPT ![i] =
                     Returned(@, extract_links(@.content, @.url), "accepted")]
    /\ UNCHANGED << visited_urls, lock, urlset, fetch_log >>
    /\ WorkerUnchanged

Next ==
    \/ Setup
    \/ SetupFails
    \/ TakeBatch
    \/ WriteSitemap
    \/ \E i \in Indices : Collect(i)
    \/ \E i \in Indices : CrawlStart(i)
    \/ \E i \in Indices : AcquireVisited(i)
    \/ \E i \in Indices : TestVisited(i)
    \/ \E i \in Indices : AddVisited(i)
    \/ \E i \in Indices : FetchPage(i)
    \/ \E i \in Indices : AcquireRecord(i)
    \/ \E i \in Indices : ProcessPage(i)
    \/ \E i \in Indices : ExtractLinks(i)

Spec == Init /\ [][Next]_vars

\* The main thread and the pool threads are threads of one running process:
\* as long as one of them can take a step, a step is taken.  Threads that
\* wait for the lock or for a free worker are served because the lock is
\* released and calls end after finitely many steps.
FairSpec == Spec /\ WF_vars(Next)

(***************************************************************************)
(* _normalize_url as a pure function: a URL string is drawn, the function  *)
(* is applied to it, to its own result, and to a second string that has    *)
(* the same scheme, netloc and path.  No crawl runs in this specification. *)
(***************************************************************************)
InitNormalize ==
    /\ MAX_DEPTH = 0
    /\ MAX_WORKERS = 1
    /\ USE_TIME_FILTER = FALSE
    /\ RESPECT_ROBOTS_TXT = FALSE
    /\ START_URL = Url("https", "x.test", "/a", "", "")
    /\ rp = "None"
    /\ visited_urls = {}
    /\ lock = 0
    /\ urlset = << >>
    /\ urls_to_process = << >>
    /\ futures = << >>
    /\ pc = "setup"
    /\ result = "running"
    /\ file = << >>
    /\ writes = 0
    /\ setup_failed = FALSE
    /\ fetch_log = {}
    /\ dispatched = 0
    /\ url_in \in UrlStrings
    /\ url_norm = << >>
    /\ url_alt = << >>

CrawlUnchanged ==
    UNCHANGED << config, visited_urls, lock, urlset, urls_to_process, futures,
                 pc, result, file, writes, setup_failed, fetch_log, dispatched >>

\* two URL strings that differ at most in query string and fragment
SameButQueryFragment(u, v) ==
    /\ urlparse(u).scheme = urlparse(v).scheme
    /\ urlparse(u).netloc = urlparse(v).netloc
    /\ urlparse(u).path = urlparse(v).path

\* self._normalize_url(url_in)
NormalizeOnce ==
    /\ url_norm = << >>
    /\ url_norm' = << NormalizeString(url_in) >>
    /\ UNCHANGED << url_in, url_alt >>
    /\ CrawlUnchanged

\* self._normalize_url of the result of the first call
NormalizeAgain ==
    /\ Len(url_norm) = 1
    /\ url_norm' = Append(url_norm, NormalizeString(url_norm[1]))
    /\ UNCHANGED << url_in, url_alt >>
    /\ CrawlUnchanged

\* self._normalize_url of a string that differs in query or fragment only
NormalizeOther ==
    /\ Len(url_norm) = 1
    /\ url_alt = << >>
    /\ \E v \in UrlStrings :
          /\ SameButQueryFragment(url_in, v)
          /\ url_alt' = << v, NormalizeString(v) >>
    /\ UNCHANGED << url_in, url_norm >>
    /\ CrawlUnchanged

NextNormalize == NormalizeOnce \/ NormalizeAgain \/ NormalizeOther

SpecNormalize == InitNormalize /\ [][NextNormalize]_vars

(***************************************************************************)
(* Properties.                                                             *)
(***************************************************************************)
Range(seq) == { seq[k] : k \in DOMAIN seq }
Seed == [url |-> START_URL, depth |-> 0]
\* the crawl_page calls that have passed the check of lines 186-189
PastCheck(i) ==
    futures[i].at \in {"fetch", "wait_record", "in_record", "extract"}

\* C1: in the sitemap written by generate_sitemap no two url entries have
\* locations with the same normalized form, the start URL's entry included.
C1_NoDuplicateNormalized ==
    result = "True" =>
      \A j, k \in DOMAIN file :
         _normalize_url(file[j].loc) = _normalize_url(file[k].loc) => j = k

\* C2: for every URL at most one crawl_page call passes the visited check
\* and reaches fetch_page, whatever the interleaving.
C2_FetchedAtMostOnce ==
    /\ \A e1, e2 \in fetch_log : e1.url = e2.url => e1.id = e2.id
    /\ \A i, j \in Indices :
         PastCheck(i) /\ PastCheck(j) /\ futures[i].url = futures[j].url => i = j
    /\ \A i \in Indices : \A e \in fetch_log :
         futures[i].at = "fetch" => e.url # futures[i].url

\* two calls on the same URL race for the check: one holds the lock and has
\* found the URL absent, the other waits at line 186
C2_Witness ==
    \E i, j \in Indices :
       /\ i # j
       /\ futures[i].url = futures[j].url
       /\ futures[i].at = "wait_visited"
       /\ futures[j].at = "add_visited"

\* C3 (as amended): no call with depth > MAX_DEPTH reaches fetch_page, no
\* item with depth > MAX_DEPTH is appended to the frontier for a discovered
\* link (only the seed (START_URL, 0), placed unconditionally, can exceed a
\* negative MAX_DEPTH), every recorded page was dispatched with depth <=
\* MAX_DEPTH, and with MAX_DEPTH = 0 only the start URL is fetched.
C3_DepthBound ==
    /\ \A e \in fetch_log : e.depth <= MAX_DEPTH
    /\ \A i \in Indices : PastCheck(i) => futures[i].depth <= MAX_DEPTH
    /\ \A item \in Range(urls_to_process) :
         item.depth > MAX_DEPTH => item = Seed
    /\ \A r \in Range(urlset) : r.depth <= MAX_DEPTH
    /\ MAX_DEPTH = 0 => \A e \in fetch_log : e.url = START_URL

\* C3 as stated: no frontier item at all has depth > MAX_DEPTH.
C3_Original ==
    /\ \A e \in fetch_log : e.depth <= MAX_DEPTH
    /\ \A item \in Range(urls_to_process) : item.depth <= MAX_DEPTH
    /\ \A r \in Range(urlset) : r.depth <= MAX_DEPTH

\* a page accepted at depth MAX_DEPTH had links, and none was enqueued
C3_Witness ==
    /\ pc = "done"
    /\ \E i \in Indices :
         /\ futures[i].depth = MAX_DEPTH
         /\ futures[i].end = "accepted"
         /\ futures[i].links # << >>

\* C4: every url entry of the sitemap, the start URL's included, has host
\* DOMAIN, and no URL with another host is fetched.
C4_DomainRestriction ==
    /\ \A r \in Range(urlset) : r.loc.netloc = CONFIG_DOMAIN
    /\ \A e \in fetch_log : e.url.netloc = CONFIG_DOMAIN

\* C5: with RESPECT_ROBOTS_TXT on and a policy loaded, a URL the policy
\* disallows is never passed to fetch_page and never recorded.
C5_RobotsCompliance ==
    RESPECT_ROBOTS_TXT /\ rp # "None" =>
      /\ \A e \in fetch_log : RobotsRule(rp, e.url) # "deny"
      /\ \A r \in Range(urlset) : RobotsRule(rp, r.loc) # "deny"
      /\ \A i \in Indices :
           futures[i].at \notin {"queued", "done", "collected"}
             => RobotsRule(rp, futures[i].url) # "deny"

\* a disallowed link was discovered, dispatched within the depth bound and
\* turned away while the rest of the crawl went on
C5_Witness ==
    /\ rp = "P1"
    /\ fetch_log # {}
    /\ \E i \in Indices :
         /\ RobotsRule(rp, futures[i].url) = "deny"
         /\ futures[i].depth <= MAX_DEPTH
         /\ futures[i].end = "denied"

\* the fetch_page results of log entry e that crawl_page must record
Recorded(e) ==
    \/ \E r \in Range(urlset) : r.loc = e.url /\ r.lastmod = e.lastmod
    \/ \E i \in Indices :
         futures[i].id = e.id /\ futures[i].at \in {"wait_record", "in_record"}

\* C6: with USE_TIME_FILTER on, every recorded page has lastmod strictly
\* after TIME_FILTER_THRESHOLD and a fetched page past the threshold is
\* recorded; with it off, every admitted and successfully fetched page is
\* recorded whatever its lastmod.
C6_TimeFilter ==
    /\ USE_TIME_FILTER =>
         /\ \A r \in Range(urlset) : r.lastmod > TIME_FILTER_THRESHOLD
         /\ \A e \in fetch_log :
              e.kind = "ok" /\ e.lastmod > TIME_FILTER_THRESHOLD => Recorded(e)
         /\ \A i \in Indices :
              futures[i].at \in {"wait_record", "in_record"}
                => futures[i].lastmod > TIME_FILTER_THRESHOLD
    /\ ~USE_TIME_FILTER =>
         /\ \A e \in fetch_log : e.kind = "ok" => Recorded(e)
         /\ \A i \in Indices : futures[i].end # "filtered"

\* the filter is on, a page dated exactly at the threshold was fetched and
\* dropped, and another page was recorded
C6_Witness ==
    /\ USE_TIME_FILTER
    /\ urlset # << >>
    /\ \E e \in fetch_log :
         /\ e.kind = "ok"
         /\ e.lastmod = TIME_FILTER_THRESHOLD
         /\ \E i \in Indices : futures[i].id = e.id /\ futures[i].end = "filtered"

\* C7: a failed fetch or an exception in one crawl_page call affects only
\* that item: the run never returns False because of it (only a failure of
\* os.makedirs or of tree.write does), and once the run is over every
\* dispatched item has ended, the frontier is empty and the file is written.
C7_FailureIsolation ==
    /\ result = "False" => setup_failed \/ writes = 1
    /\ pc = "done" /\ ~setup_failed =>
         /\ writes = 1
         /\ urls_to_process = << >>
         /\ \A i \in Indices : futures[i].at = "collected" /\ futures[i].end # "none"
    /\ \A i \in Indices :
         futures[i].end = "failed" =>
           /\ futures[i].links = << >>
           /\ \A r \in Range(urlset) : r.loc # futures[i].url
           /\ lock # i

\* a fetch raised and another returned None, yet an item dispatched after
\* them was fetched and recorded, and the run returned True
C7_Witness ==
    /\ result = "True"
    /\ \E e1, e2, e3 \in fetch_log :
         /\ e1.kind = "raise" /\ e2.kind = "none" /\ e3.kind = "ok"
         /\ e3.id > e1.id /\ e3.id > e2.id
         /\ \E k \in DOMAIN file : file[k].loc = e3.url

\* C8: when the initial crawl state cannot be set up (os.makedirs fails, or
\* the start URL is invalid), no item is dispatched and the run does not
\* return success.
C8_SetupFailureFatal ==
    setup_failed \/ START_URL.scheme \notin {"http", "https"} =>
      /\ dispatched = 0
      /\ result # "True"

\* the URL strings of the model
Universe ==
    StartUrls \cup
    { Url(sch, "x.test", pth, "", "") :
        sch \in {"https", "ftp"}, pth \in {"/a", "/b", "/old", "/priv", "/f", "/g"} }

C11_NormalizeIdempotent ==
    /\ Len(url_norm) = 2 => url_norm[2] = url_norm[1]
    /\ url_alt # << >> => url_alt[2] = url_norm[1]

\* a page crawl_page accepts whenever it is called for it within the depth
\* bound: allowed by robots.txt, fetched with success, passing the time filter
Crawlable(url) ==
    /\ can_fetch(url)
    /\ \A r \in fetch_page(url) : r.kind = "ok" /\ ~TimeFiltered(r.lastmod)

\* the links extract_links returns for the page at url
LinksOf(url) ==
    UNION { Range(extract_links(r.content, url)) : r \in fetch_page(url) }

\* the URLs within k hops of START_URL over in-domain pages that are accepted
RECURSIVE WithinHops(_)
WithinHops(k) ==
    IF k < 0 THEN {}
    ELSE IF k = 0
      THEN { u \in {START_URL} : SameDomain(u) /\ Crawlable(u) }
    ELSE WithinHops(k - 1) \cup
         { l \in UNION { LinksOf(u) : u \in WithinHops(k - 1) } : Crawlable(l) }

\* C12: when generate_sitemap has returned True, every URL within MAX_DEPTH
\* hops of the start URL over accepted in-domain pages has an entry in the
\* written sitemap, whatever MAX_WORKERS and the interleaving were.
C12_Completeness ==
    (pc = "done" /\ result = "True") =>
        \A u \in WithinHops(MAX_DEPTH) : \E k \in DOMAIN file : file[k].loc = u

\* C13: a step that appends items to the frontier appends none whose URL is
\* already in visited_urls (deduplication at discovery time).
C13_DedupAtDiscovery ==
    [][Len(urls_to_process') > Len(urls_to_process) =>
          \A k \in (Len(urls_to_process) + 1) .. Len(urls_to_process') :
              urls_to_process'[k].url \notin visited_urls]_vars

\* C14: extract_links returns nothing for a fragment-only href, and every
\* link it returns, and every frontier item made of one, has the scheme http
\* or https, on whatever host.
C14_OnlyHttpLinks ==
    /\ \A i \in Indices : \A k \in DOMAIN futures[i].content :
          LET href == futures[i].content[k]
              found == extract_links(<< href >>, futures[i].url)
          IN  /\ StartsWithHash(href) => found = << >>
              /\ \A l \in Range(found) : l.scheme \in {"http", "https"}
    /\ \A i \in Indices : \A l \in Range(futures[i].links) :
          l.scheme \in {"http", "https"}
    /\ \A k \in DOMAIN urls_to_process :
          urls_to_process[k].depth >= 1 =>
              urls_to_process[k].url.scheme \in {"http", "https"}

\* a call of fetch_page that failed, or whose lastmod does not pass the filter
FailedOrFiltered(g) ==
    g.kind # "ok" \/ (USE_TIME_FILTER /\ g.lastmod <= TIME_FILTER_THRESHOLD)

\* C15: an item whose fetch failed or whose lastmod did not pass the time
\* filter has no record and returns no links, its URL stays in visited_urls
\* and is fetched by no other call; every frontier item with depth >= 1 is a
\* link of a recorded page one level up, and a step that appends such items
\* takes them from the links of an accepted call whose page has a record.
C15_LinksOnlyFromAccepted ==
    /\ [](/\ \A g \in fetch_log : FailedOrFiltered(g) =>
                /\ \A k \in DOMAIN urlset : urlset[k].loc # g.url
                /\ g.url \in visited_urls
                /\ \A h \in fetch_log : h.url = g.url => h.id = g.id
                /\ \A i \in Indices :
                      futures[i].id = g.id => futures[i].links = << >>
          /\ \A n \in DOMAIN urls_to_process :
                urls_to_process[n].depth >= 1 =>
                    \E k \in DOMAIN urlset :
                        /\ urlset[k].depth = urls_to_process[n].depth - 1
                        /\ urls_to_process[n].url \in LinksOf(urlset[k].loc))
    /\ [][Len(urls_to_process') > Len(urls_to_process) /\ pc = "crawl" =>
            \E i \in Indices :
                /\ futures[i].at = "done" /\ futures'[i].at = "collected"
                /\ futures[i].end = "accepted"
                /\ \E k \in DOMAIN urlset :
                      urlset[k].loc = futures[i].url
                      /\ urlset[k].depth = futures[i].depth
                /\ \A n \in (Len(urls_to_process) + 1) .. Len(urls_to_process') :
                      /\ urls_to_process'[n].depth = futures[i].depth + 1
                      /\ urls_to_process'[n].url \in Range(futures[i].links)]_vars

\* a crawl ended with a failed fetch, a filtered page and recorded pages
C15_Witness ==
    /\ pc = "done" /\ result = "True" /\ Len(file) >= 2
    /\ \E g \in fetch_log : g.kind # "ok"
    /\ \E g \in fetch_log :
          g.kind = "ok" /\ USE_TIME_FILTER /\ g.lastmod <= TIME_FILTER_THRESHOLD

\* C16: a step that appends frontier items for discovered links takes them
\* from a call of the current batch that has completed, and submits nothing;
\* a step that submits calls does so only when every call of the batch before
\* it has completed and been collected, and it submits the head of the
\* frontier under new ids: a child runs in a later batch than its parent.
C16_ParentBeforeChild ==
    [][/\ (Len(urls_to_process') > Len(urls_to_process) /\ pc = "crawl") =>
            /\ dispatched' = dispatched
            /\ \E i \in Indices :
                  /\ futures[i].at = "done" /\ futures'[i].at = "collected"
                  /\ \A n \in (Len(urls_to_process) + 1) .. Len(urls_to_process') :
                        /\ urls_to_process'[n].url \in Range(futures[i].links)
                        /\ urls_to_process'[n].depth = futures[i].depth + 1
       /\ dispatched' > dispatched =>
            /\ \A i \in Indices : futures[i].at = "collected"
            /\ \A j \in DOMAIN futures' :
                  /\ futures'[j].id > dispatched
                  /\ futures'[j].at = "queued"
                  /\ futures'[j].url = urls_to_process[j].url
                  /\ futures'[j].depth = urls_to_process[j].depth]_vars

\* a link found two levels below the start page is being fetched
C16_Witness ==
    \E i \in Indices :
        /\ futures[i].depth = 2
        /\ futures[i].at = "fetch"
        /\ dispatched > 2

\* C17: never more than MAX_WORKERS crawl_page calls are executing, a batch
\* never has more than 2 * MAX_WORKERS items, and a batch is submitted only
\* when every call of the batch before it has ended.
C17_BoundedParallelism ==
    /\ [](/\ Cardinality({ i \in Indices : Executing(i) }) <= MAX_WORKERS
          /\ Len(futures) <= 2 * MAX_WORKERS)
    /\ [][dispatched' > dispatched =>
            /\ \A i \in Indices : futures[i].at \in {"done", "collected"}
            /\ dispatched' - dispatched <= 2 * MAX_WORKERS]_vars

\* a full batch with the pool saturated and a call waiting for a worker
C17_Witness ==
    /\ MAX_WORKERS = 2
    /\ Len(futures) = 2 * MAX_WORKERS
    /\ Cardinality({ i \in Indices : Executing(i) }) = MAX_WORKERS
    /\ \E i \in Indices : futures[i].at = "queued"
    /\ urls_to_process # << >>

\* C18: with MAX_DEPTH >= 0, once generate_sitemap has entered its loop it
\* ends: the frontier becomes empty, every call is collected and the sitemap
\* is written (tree.write is called once).
C18_Termination ==
    (MAX_DEPTH >= 0 /\ pc = "crawl") ~>
        (pc = "done" /\ urls_to_process = << >> /\ AllCollected /\ writes = 1)

\* a crawl over the cycle /a -> /b -> /a has ended and the file is written
C18_Witness ==
    /\ pc = "done" /\ writes = 1 /\ urls_to_process = << >>
    /\ MAX_DEPTH >= 2
    /\ \E g \in fetch_log : g.url.path = "/b" /\ g.kind = "ok"
    /\ \E g \in fetch_log : g.url.path = "/a" /\ g.kind = "ok"
    /\ dispatched >= 4

\* the places of crawl_page where the lock is held: lines 187-189 and 126-130
InLockedBlock(i) == futures[i].at \in {"in_visited", "add_visited", "in_record"}

\* C19: the lock is held exactly by the call that is inside the visited
\* check-and-insert or inside the append of its record, so never during
\* can_fetch, fetch_page or extract_links and never when no call is running;
\* it is acquired only when free; visited_urls and urlset change only under
\* it, one record at a time; and whenever calls wait for it, a state follows
\* in which the lock is free and no call waits.
C19_LockDiscipline ==
    /\ [](/\ lock # 0 => lock \in Indices /\ InLockedBlock(lock)
          /\ \A i \in Indices : InLockedBlock(i) => lock = i
          /\ (\A i \in Indices : ~Executing(i)) => lock = 0)
    /\ [][/\ (lock' # lock /\ lock' # 0) => lock = 0
          /\ visited_urls' # visited_urls =>
                lock # 0 /\ futures[lock].at = "add_visited" /\ lock' = 0
          /\ urlset' # urlset =>
                /\ lock # 0 /\ futures[lock].at = "in_record" /\ lock' = 0
                /\ Len(urlset') = Len(urlset) + 1]_vars
    /\ (\E i \in Indices : futures[i].at \in {"wait_visited", "wait_record"})
          ~> (lock = 0 /\ \A i \in Indices :
                 futures[i].at \notin {"wait_visited", "wait_record"})

\* a call waits for the lock while another call holds it
C19_Witness ==
    \E i, j \in Indices :
        /\ i # j
        /\ lock = i
        /\ futures[i].at = "in_record"
        /\ futures[j].at = "wait_visited"

\* C20: a 200 response without a Last-Modified header, or with one that does
\* not parse, makes fetch_page return success with lastmod = the current
\* time; the item is neither failed nor filtered, and with the clock past the
\* threshold the page is recorded with that lastmod, time filter on or off.
C20_DefaultTimestamp ==
    \A g \in fetch_log : g.header \in {"absent", "garbage"} =>
        /\ g.kind = "ok"
        /\ g.lastmod = Now
        /\ \A i \in Indices :
              futures[i].id = g.id => futures[i].end \notin {"failed", "filtered"}
        /\ Now > TIME_FILTER_THRESHOLD =>
              \/ \E i \in Indices :
                    futures[i].id = g.id
                    /\ futures[i].at \in {"wait_record", "in_record"}
              \/ \E k \in DOMAIN urlset :
                    urlset[k].loc = g.url /\ urlset[k].lastmod = Now

\* with the time filter on, a page without the header and a page with an
\* unparsable header are both in the written sitemap
C20_Witness ==
    /\ USE_TIME_FILTER
    /\ pc = "done" /\ result = "True"
    /\ \E g \in fetch_log : g.header = "absent" /\
          \E k \in DOMAIN file : file[k].loc = g.url /\ file[k].lastmod = Now
    /\ \E g \in fetch_log : g.header = "garbage" /\
          \E k \in DOMAIN file : file[k].loc = g.url /\ file[k].lastmod = Now

=============================================================================
